---------------------------- MODULE Spec2Model ----------------------------
(***************************************************************************)
(* QueryX backend (src/main.py): a FastAPI application with three routes,  *)
(* GET /health, POST /ask-text and POST /ask-image.  The two ask routes    *)
(* build a prompt, call the generative model once and wrap the text of     *)
(* the result, or a fixed fallback sentence, in an AnswerResponse.         *)
(*                                                                         *)
(* Python values are represented as follows.                               *)
(*   str        a sequence of chunks; a chunk is a TLA+ string that is     *)
(*              either one character of user data or one literal of the    *)
(*              source.  + is \o.  Non-ASCII characters of the literals    *)
(*              are transliterated.                                        *)
(*   Optional   a sequence of length at most one: << >> is None / not yet  *)
(*              assigned, <<v>> is the value v.                            *)
(*   bytes      a sequence of numbers 0..255.                              *)
(***************************************************************************)
EXTENDS Integers, Sequences, FiniteSets, TLC

\* Longest question and longest provider text, in characters.
MaxLen == 3
\* Number of requests handled concurrently in SpecConc.
NumReq == 2

Requests == 1..NumReq

-----------------------------------------------------------------------------
(* Strings                                                                 *)

\* Characters of user data: two kinds of whitespace and one letter.
Chars == {" ", "\n", "q"}

\* The ASCII characters str.strip() removes when called without argument.
Whitespace == {" ", "\t", "\n", "\r", "\f"}

Strings(n) == UNION {[1..k -> Chars] : k \in 0..n}

RECURSIVE lstrip(_)
lstrip(s) ==
    IF s = << >> THEN << >>
    ELSE IF Head(s) \in Whitespace THEN lstrip(Tail(s))
    ELSE s

RECURSIVE rstrip(_)
rstrip(s) ==
    IF s = << >> THEN << >>
    ELSE IF s[Len(s)] \in Whitespace THEN rstrip(SubSeq(s, 1, Len(s) - 1))
    ELSE s

\* str.strip()
strip(s) == rstrip(lstrip(s))

\* `x or ""` for an Optional str x: None and "" both give "".
or_empty(x) == IF x = << >> THEN << >> ELSE x[1]

-----------------------------------------------------------------------------
(* Types (src/main.py 40-53)                                               *)

Level    == {"basic", "advanced"}
Style    == {"detailed", "short"}
Language == {"english", "hinglish"}

\* Field defaults of AskTextRequest and of the ask_image parameters.
DefaultLevel    == "basic"
DefaultStyle    == "detailed"
DefaultLanguage == "hinglish"

-----------------------------------------------------------------------------
(* Prompt helpers (src/main.py 61-143)                                     *)

LevelAdvanced ==
    "Explain with JEE/NEET exam depth, derivations, multiple cases and mention important limiting cases / approximations where useful."

LevelBasic ==
    "Explain conceptually for class 11-12 level without unnecessary complications. Use simple language and only the formulas actually needed."

StyleDetailed ==
    "Give a DETAILED, step-by-step solution:\n- Use clear headings like 'Concept', 'Given', 'Solution', 'Result'.\n- Use numbered steps for derivation and reasoning.\n- Length around 300-600 words (ya 6-12 bullet/steps).\n- Include 1-2 short examples or comments if helpful."

StyleShort ==
    "Give a SHORT, exam-ready answer ONLY:\n- Maximum 4-6 lines OR up to 5 bullet points.\n- NO extra examples, stories, or side comments.\n- ONLY the key concept, main formula, and final result.\n- Target length ~ 80-150 words total.\n- Do NOT add headings; sirf chhota crisp explanation do."

LangHinglish ==
    "Write using mixed Hindi + English (Hinglish) in Roman script. Sentences Hinglish me ho, lekin equations LaTeX me likho."

LangEnglish ==
    "Write explanation in clear English. Equations in LaTeX."

\* The literal before the level clause, up to "STYLE RULES (VERY IMPORTANT):\n".
Preamble ==
    "You are QueryX, a PCMB question solver for JEE/NEET.\n\nGOAL:\n- Provide only the final answer in clean markdown.\n- Do NOT output JSON, and do NOT output code fences.\n- Use LaTeX for all mathematical expressions.\n  Inline examples: $F = ma$, $Q_{enc}$, $\\vec{E} \\cdot d\\vec{A}$.\n  Block examples:\n\n    $$ \\oint_S \\vec{E} \\cdot dA = \\frac{Q_{enc}}{\\varepsilon_0} $$\n    $$ V(r) = \\frac{1}{4\\pi\\varepsilon_0} \\frac{q}{r} $$\n\nSTYLE RULES (VERY IMPORTANT):\n"

\* The literal after the language clause.
StrictRules ==
    "- Do not mention internal reasoning.\n- Do not mention that you are an AI model.\n- Final answer must be clean and formatted.\n\nSTRICT LATEX RULES:\n- Always use $ ... $ for inline LaTeX.\n- Always use $$ ... $$ for block LaTeX on separate lines.\n- No HTML tags inside equations.\n- No unicode subscripts (Q0). Use LaTeX subscripts (Q_0).\n- Never wrap LaTeX inside backticks.\n"

\* The branch of `if level == "advanced": ... else: ...`
level_line(level) == IF level = "advanced" THEN LevelAdvanced ELSE LevelBasic

\* A mutant of style_line: the style is ignored.
style_line_always_detailed(style) == StyleDetailed

\* The branch of `if style == "detailed": ... else: ...`
style_line(style) == IF style = "detailed" THEN StyleDetailed ELSE StyleShort

\* A mutant of lang_line: the test is for "english" and the else branch is
\* Hinglish.
lang_line_else_hinglish(language) ==
    IF language = "english" THEN LangEnglish ELSE LangHinglish

\* The branch of `if language == "hinglish": ... else: ...`
lang_line(language) == IF language = "hinglish" THEN LangHinglish ELSE LangEnglish

\* The returned f-string: eleven chunks, the level, style and language
\* clauses being the third, sixth and ninth.
build_system_prompt(level, style, language) ==
    << Preamble,
       "- ", level_line(level), "\n",
       "- ", style_line(style), "\n",
       "- ", lang_line(language), "\n",
       StrictRules >>

QuestionHeader == "\n\nQuestion:\n"

AnswerFormat ==
    "\n\nAnswer format instructions (follow strictly):\n- Use markdown paragraphs + bullet / numbered lists.\n- All maths strictly in LaTeX.\n- Inline examples: $F = ma$, $T = 2\\pi\\sqrt{L/g}$.\n- Block examples:\n    $$ W = \\int_{x_1}^{x_2} F(x) \\, dx $$\n    $$ a(t) = \\frac{dv}{dt}, \\quad v(t) = \\frac{dx}{dt} $$\n- Do NOT output triple backticks.\n- Do NOT output JSON.\n\nNow give the final answer:\n"

make_markdown_prompt(system_prompt, question) ==
    system_prompt \o <<QuestionHeader>> \o question \o <<AnswerFormat>>

-----------------------------------------------------------------------------
(* The process and its requests                                            *)

VARIABLES
    model,          \* the module-level GenerativeModel, set at import
    stdout,         \* the lines print() has written, in order
    pc,             \* per request: the position of its handling
    route,          \* per request: the path it was sent to
    raw,            \* per request: Optional, the request as received
    payload,        \* per request: Optional, the validated parameters
    system_prompt,  \* per request: Optional, the handler's system_prompt
    contents,       \* per request: Optional, the argument built for the call
    sent,           \* per request: the provider calls made, in order
    outcome,        \* per request: Optional, how the provider call ended
    exc,            \* per request: Optional, the exception the handler caught
    text,           \* per request: Optional, the handler's text
    response,       \* per request: Optional, the HTTP response
    unit            \* direct calls of the prompt helpers: arguments, results

vars == << model, stdout, pc, route, raw, payload, system_prompt, contents,
           sent, outcome, exc, text, response, unit >>

\* genai.GenerativeModel("gemini-2.0-flash")
ModelName == "gemini-2.0-flash"

Absent == "<absent>"

\* What a caller may send for an option: nothing, an enumerated value, or
\* something else.
RawLevel    == Level \cup {Absent, "expert"}
RawStyle    == Style \cup {Absent, "medium"}
RawLanguage == Language \cup {Absent, "hindi"}

\* Uploaded files: the declared content type (Optional, possibly empty) and
\* the bytes.
ContentTypes == {<< >>, <<"">>, <<"image/png">>, <<"text/plain">>}
Blobs == {<< >>, <<137, 80, 78, 71>>}
Uploads == [content_type : ContentTypes, data : Blobs]

NoUpload == [content_type |-> << >>, data |-> << >>]

\* The requests of one caller, over all option values, questions of at most
\* MaxLen characters and all uploads.
WideRequests ==
    [path : {"/health"}, question : {<< >>}, file : {<< >>},
     level : {Absent}, style : {Absent}, language : {Absent}]
    \cup
    [path : {"/ask-text"},
     question : {<< >>} \cup {<<s>> : s \in Strings(MaxLen)},
     file : {<< >>},
     level : RawLevel, style : RawStyle, language : RawLanguage]
    \cup
    [path : {"/ask-image"},
     question : {<< >>},
     file : {<< >>} \cup {<<f>> : f \in Uploads},
     level : RawLevel, style : RawStyle, language : RawLanguage]

\* A few requests, used where several are handled at once.
NarrowRequests ==
    [path : {"/health"}, question : {<< >>}, file : {<< >>},
     level : {Absent}, style : {Absent}, language : {Absent}]
    \cup
    [path : {"/ask-text"}, question : {<< <<" ", "q">> >>}, file : {<< >>},
     level : Level, style : {Absent}, language : {Absent}]
    \cup
    [path : {"/ask-image"}, question : {<< >>},
     file : {<< [content_type |-> << >>, data |-> <<137, 80, 78, 71>>] >>},
     level : Level, style : {Absent}, language : {Absent}]

\* Exceptions of generate_content and of result.text; all derive from
\* Exception.
ProviderErrors == {"ResourceExhausted('quota')", "ValueError('no valid Part')"}
\* Exceptions of file.read().
ReadErrors == {"OSError('read failed')"}

Raised(e)   == [kind |-> "raise", err |-> e, text |-> << >>]
Returned(t) == [kind |-> "return", err |-> "", text |-> t]

\* How a provider call may end: an exception, a result without text, a
\* result with a text of at most MaxLen characters.
WideOutcomes ==
    {Raised(e) : e \in ProviderErrors}
    \cup {Returned(<< >>)}
    \cup {Returned(<<s>>) : s \in Strings(MaxLen)}

NarrowOutcomes ==
    {Raised("ResourceExhausted('quota')"), Returned(<< >>),
     Returned(<< <<"q", " ">> >>)}

\* The arguments of the direct calls of build_system_prompt.
AnyLevel    == Level \cup {"expert", ""}
AnyStyle    == Style \cup {"medium", ""}
AnyLanguage == Language \cup {"hindi", ""}
Args == [level : AnyLevel, style : AnyStyle, language : AnyLanguage]

DefaultArgs ==
    [level |-> DefaultLevel, style |-> DefaultStyle, language |-> DefaultLanguage]

UnitIdle ==
    [a |-> DefaultArgs, b |-> DefaultArgs, question |-> << >>,
     sp_a |-> << >>, sp_b |-> << >>, full |-> << >>]

InitRequests ==
    /\ model = ModelName
    /\ stdout = << >>
    /\ pc = [r \in Requests |-> "idle"]
    /\ route = [r \in Requests |-> ""]
    /\ raw = [r \in Requests |-> << >>]
    /\ payload = [r \in Requests |-> << >>]
    /\ system_prompt = [r \in Requests |-> << >>]
    /\ contents = [r \in Requests |-> << >>]
    /\ sent = [r \in Requests |-> << >>]
    /\ outcome = [r \in Requests |-> << >>]
    /\ exc = [r \in Requests |-> << >>]
    /\ text = [r \in Requests |-> << >>]
    /\ response = [r \in Requests |-> << >>]

Init == InitRequests /\ unit = UnitIdle

-----------------------------------------------------------------------------
(* The boundary: FastAPI validates the request against the declared types  *)

OptionOk(v, enum) == v = Absent \/ v \in enum

\* A mutant of Valid: the option values are not checked.
ValidRequiredOnly(q) ==
    CASE q.path = "/ask-text"  -> q.question # << >>
      [] q.path = "/ask-image" -> q.file # << >>
      [] OTHER -> TRUE

\* question: str and file: UploadFile = File(...) are required; level, style
\* and language are Literal types with defaults.
Valid(q) ==
    CASE q.path = "/ask-text" ->
            /\ q.question # << >>
            /\ OptionOk(q.level, Level)
            /\ OptionOk(q.style, Style)
            /\ OptionOk(q.language, Language)
      [] q.path = "/ask-image" ->
            /\ q.file # << >>
            /\ OptionOk(q.level, Level)
            /\ OptionOk(q.style, Style)
            /\ OptionOk(q.language, Language)
      [] OTHER -> TRUE

WithDefault(v, d) == IF v = Absent THEN d ELSE v

\* The parameters the handler receives.
Parse(q) ==
    [question |-> or_empty(q.question),
     file     |-> IF q.file = << >> THEN NoUpload ELSE q.file[1],
     level    |-> WithDefault(q.level, DefaultLevel),
     style    |-> WithDefault(q.style, DefaultStyle),
     language |-> WithDefault(q.language, DefaultLanguage)]

\* The responses.  A body is a JSON object.
AnswerResponse(t) == [status |-> 200, body |-> [answer_text |-> t]]
HealthResponse == [status |-> 200, body |-> [status |-> "ok"]]
UnprocessableEntity == [status |-> 422, body |-> [detail |-> "validation error"]]
InternalServerError == [status |-> 500, body |-> [detail |-> "Internal Server Error"]]

Arrive(r, Inputs) ==
    /\ pc[r] = "idle"
    /\ \E q \in Inputs :
          /\ raw' = [raw EXCEPT ![r] = <<q>>]
          /\ route' = [route EXCEPT ![r] = q.path]
    /\ pc' = [pc EXCEPT ![r] = "received"]
    /\ UNCHANGED << model, stdout, payload, system_prompt, contents, sent,
                    outcome, exc, text, response, unit >>

Validate(r) ==
    /\ pc[r] = "received"
    /\ raw' = [raw EXCEPT ![r] = << >>]
    /\ IF Valid(raw[r][1])
       THEN /\ payload' = [payload EXCEPT ![r] = <<Parse(raw[r][1])>>]
            /\ pc' = [pc EXCEPT ![r] = "handler"]
            /\ UNCHANGED response
       ELSE /\ response' = [response EXCEPT ![r] = <<UnprocessableEntity>>]
            /\ pc' = [pc EXCEPT ![r] = "done"]
            /\ UNCHANGED payload
    /\ UNCHANGED << model, stdout, route, system_prompt, contents, sent,
                    outcome, exc, text, unit >>

-----------------------------------------------------------------------------
(* Routes (src/main.py 151-198)                                            *)

\* A mutant of Payload: the parameters are kept in one module-level variable
\* that every request overwrites, so a handler sees the latest ones.
SharedPayload(r) ==
    LET last == CHOOSE q \in Requests :
                    /\ payload[q] # << >>
                    /\ \A o \in Requests : payload[o] # << >> => o <= q
    IN  payload[last][1]

\* The parameters of the handler call made for request r.
Payload(r) == payload[r][1]

FallbackText  == << "Sorry, backend me kuch error aa gaya. Please try again." >>
FallbackImage == << "Sorry, image se question read karte waqt error aa gaya." >>

Fallback(path) == IF path = "/ask-text" THEN FallbackText ELSE FallbackImage

\* print("Gemini error in <route>:", repr(e))
LogLine(path, e) == [msg |-> "Gemini error in " \o path \o ":", err |-> e]

ImageInstruction ==
    "\nRewrite the question clearly from the image. Then solve step-by-step.\n"

DefaultMime == "image/jpeg"

\* `file.content_type or "image/jpeg"`: None and "" both give the default.
mime_type(file) ==
    IF file.content_type = << >> \/ file.content_type[1] = ""
    THEN DefaultMime
    ELSE file.content_type[1]

\* A mutant of image_contents: the declared content type is ignored.
image_contents_always_jpeg(sp, file) ==
    << [text |-> sp \o <<ImageInstruction>>],
       [mime_type |-> DefaultMime, data |-> file.data] >>

\* The list passed to generate_content by ask_image.
image_contents(sp, file) ==
    << [text |-> sp \o <<ImageInstruction>>],
       [mime_type |-> mime_type(file), data |-> file.data] >>

\* A mutant of text_contents: the question is not stripped.
text_contents_unstripped(sp, question) ==
    << [text |-> make_markdown_prompt(sp, question)] >>

\* The prompt passed to generate_content by ask_text.
text_contents(sp, question) ==
    << [text |-> make_markdown_prompt(sp, strip(question))] >>

\* A mutant of result_text: the text is returned as the provider gave it.
result_text_unstripped(t) == or_empty(t)

\* `(result.text or "").strip()`
result_text(t) == strip(or_empty(t))

\* A mutant of catches: `except ValueError`.
catches_value_error_only(e) == e = "ValueError('no valid Part')"

\* `except Exception`: every exception of the provider and of file.read().
catches(e) == e \in ProviderErrors \cup ReadErrors

\* A mutant of on_raise: a failed provider call is made again.
retry_on_raise(r) == IF contents[r] # << >> THEN "call" ELSE "except"

\* Where an exception raised in the try block continues.
on_raise(r) == "except"

\* stdout after the except block's print.
logged(out, path, e) == Append(out, LogLine(path, e))

\* A mutant of may_return: the handler answers while the call is pending.
may_return_on_timeout(r) == pc[r] \in {"return", "inflight"}

\* The handler reaches its return statement.
may_return(r) == pc[r] = "return"

\* An exception e raised inside the try block of request r.
Raise(r, e) ==
    IF catches(e)
    THEN /\ exc' = [exc EXCEPT ![r] = <<e>>]
         /\ pc' = [pc EXCEPT ![r] = on_raise(r)]
         /\ UNCHANGED response
    ELSE /\ response' = [response EXCEPT ![r] = <<InternalServerError>>]
         /\ pc' = [pc EXCEPT ![r] = "done"]
         /\ UNCHANGED exc

\* health()
Health(r) ==
    /\ pc[r] = "handler" /\ route[r] = "/health"
    /\ response' = [response EXCEPT ![r] = <<HealthResponse>>]
    /\ pc' = [pc EXCEPT ![r] = "done"]
    /\ UNCHANGED << model, stdout, route, raw, payload, system_prompt,
                    contents, sent, outcome, exc, text, unit >>

\* ask_text, up to the try statement.
AskTextBuild(r) ==
    /\ pc[r] = "handler" /\ route[r] = "/ask-text"
    /\ LET p  == Payload(r)
           sp == build_system_prompt(p.level, p.style, p.language)
       IN  /\ system_prompt' = [system_prompt EXCEPT ![r] = <<sp>>]
           /\ contents' = [contents EXCEPT ![r] = <<text_contents(sp, p.question)>>]
    /\ pc' = [pc EXCEPT ![r] = "call"]
    /\ UNCHANGED << model, stdout, route, raw, payload, sent, outcome, exc,
                    text, response, unit >>

\* ask_image, up to the try statement.
AskImageBuild(r) ==
    /\ pc[r] = "handler" /\ route[r] = "/ask-image"
    /\ LET p == Payload(r)
       IN  system_prompt' = [system_prompt EXCEPT ![r] =
                                <<build_system_prompt(p.level, p.style, p.language)>>]
    /\ pc' = [pc EXCEPT ![r] = "read"]
    /\ UNCHANGED << model, stdout, route, raw, payload, contents, sent,
                    outcome, exc, text, response, unit >>

\* ask_image: `img_bytes = await file.read()` and the contents list, or the
\* exception of the read.
AskImageRead(r) ==
    /\ pc[r] = "read"
    /\ \/ /\ contents' = [contents EXCEPT ![r] =
                             <<image_contents(system_prompt[r][1], Payload(r).file)>>]
          /\ pc' = [pc EXCEPT ![r] = "call"]
          /\ UNCHANGED << exc, response >>
       \/ /\ \E e \in ReadErrors : Raise(r, e)
          /\ UNCHANGED contents
    /\ UNCHANGED << model, stdout, route, raw, payload, system_prompt, sent,
                    outcome, text, unit >>

\* model.generate_content(...) is entered.
CallProvider(r) ==
    /\ pc[r] = "call"
    /\ sent' = [sent EXCEPT ![r] =
                   Append(@, [model |-> model, contents |-> contents[r][1]])]
    /\ pc' = [pc EXCEPT ![r] = "inflight"]
    /\ UNCHANGED << model, stdout, route, raw, payload, system_prompt,
                    contents, outcome, exc, text, response, unit >>

\* The provider call ends: with a result, whose text is stripped, or with an
\* exception.  A call that hangs never takes this step.
ProviderReturn(r, Outcomes) ==
    /\ pc[r] = "inflight"
    /\ \E o \in Outcomes :
          /\ outcome' = [outcome EXCEPT ![r] = <<o>>]
          /\ IF o.kind = "return"
             THEN /\ text' = [text EXCEPT ![r] = <<result_text(o.text)>>]
                  /\ pc' = [pc EXCEPT ![r] = "return"]
                  /\ UNCHANGED << exc, response >>
             ELSE /\ Raise(r, o.err)
                  /\ UNCHANGED text
    /\ UNCHANGED << model, stdout, route, raw, payload, system_prompt,
                    contents, sent, unit >>

\* The except block: print, then the fallback sentence.
Except(r) ==
    /\ pc[r] = "except"
    /\ stdout' = logged(stdout, route[r], exc[r][1])
    /\ text' = [text EXCEPT ![r] = <<Fallback(route[r])>>]
    /\ pc' = [pc EXCEPT ![r] = "return"]
    /\ UNCHANGED << model, route, raw, payload, system_prompt, contents,
                    sent, outcome, exc, response, unit >>

\* return AnswerResponse(answer_text=text); a text that is not a str fails
\* the model's validation.
Return(r) ==
    /\ may_return(r)
    /\ response' = [response EXCEPT ![r] =
                       IF text[r] # << >>
                       THEN <<AnswerResponse(text[r][1])>>
                       ELSE <<InternalServerError>>]
    /\ pc' = [pc EXCEPT ![r] = "done"]
    /\ UNCHANGED << model, stdout, route, raw, payload, system_prompt,
                    contents, sent, outcome, exc, text, unit >>

\* One step of the handling of request r.
Step(r, Inputs, Outcomes) ==
    \/ Arrive(r, Inputs)
    \/ Validate(r)
    \/ Health(r)
    \/ AskTextBuild(r)
    \/ AskImageBuild(r)
    \/ AskImageRead(r)
    \/ CallProvider(r)
    \/ ProviderReturn(r, Outcomes)
    \/ Except(r)
    \/ Return(r)

\* One request, over the wide inputs.
Next == Step(1, WideRequests, WideOutcomes)

Spec == Init /\ [][Next]_vars

\* The handler's own steps are taken once enabled; a request may never be
\* sent, and the provider may never answer.
Progress(r) ==
    Validate(r) \/ Health(r) \/ AskTextBuild(r) \/ AskImageBuild(r)
    \/ AskImageRead(r) \/ CallProvider(r) \/ Except(r) \/ Return(r)

FairSpec == Spec /\ WF_vars(Progress(1))

\* NumReq requests, interleaved, over the narrow inputs.
NextConc == \E r \in Requests : Step(r, NarrowRequests, NarrowOutcomes)

SpecConc == Init /\ [][NextConc]_vars

-----------------------------------------------------------------------------
(* Direct calls of the prompt helpers                                      *)

InitUnit ==
    /\ InitRequests
    /\ unit \in [a : Args, b : Args, question : {<< >>},
                 sp_a : {<< >>}, sp_b : {<< >>}, full : {<< >>}]

DirectCallA ==
    /\ unit.sp_a = << >>
    /\ unit' = [unit EXCEPT !.sp_a =
                   <<build_system_prompt(unit.a.level, unit.a.style, unit.a.language)>>]
    /\ UNCHANGED << model, stdout, pc, route, raw, payload, system_prompt,
                    contents, sent, outcome, exc, text, response >>

DirectCallB ==
    /\ unit.sp_b = << >>
    /\ unit' = [unit EXCEPT !.sp_b =
                   <<build_system_prompt(unit.b.level, unit.b.style, unit.b.language)>>]
    /\ UNCHANGED << model, stdout, pc, route, raw, payload, system_prompt,
                    contents, sent, outcome, exc, text, response >>

NextUnit == DirectCallA \/ DirectCallB

SpecUnit == InitUnit /\ [][NextUnit]_vars

\* make_markdown_prompt called directly with the system prompt of call A and
\* the question as it is.
DirectMake ==
    /\ unit.sp_a # << >> /\ unit.full = << >>
    /\ unit' = [unit EXCEPT !.full =
                   <<make_markdown_prompt(unit.sp_a[1], unit.question)>>]
    /\ UNCHANGED << model, stdout, pc, route, raw, payload, system_prompt,
                    contents, sent, outcome, exc, text, response >>

\* The /ask-text requests that carry question q and the options a.
TextRequests(q, a) ==
    [path : {"/ask-text"}, question : {<<q>>}, file : {<< >>},
     level : {a.level}, style : {a.style}, language : {a.language}]

\* One question, passed to make_markdown_prompt directly and posted to
\* /ask-text.
InitPrompt ==
    /\ InitRequests
    /\ unit \in [a : [level : Level, style : {DefaultStyle}, language : {DefaultLanguage}],
                 b : {DefaultArgs}, question : Strings(MaxLen),
                 sp_a : {<< >>}, sp_b : {<< >>}, full : {<< >>}]

NextPrompt ==
    \/ DirectCallA
    \/ DirectMake
    \/ Arrive(1, TextRequests(unit.question, unit.a))
    \/ Validate(1)
    \/ AskTextBuild(1)
    \/ CallProvider(1)
    \/ ProviderReturn(1, NarrowOutcomes)
    \/ Except(1)
    \/ Return(1)

SpecPrompt == InitPrompt /\ [][NextPrompt]_vars

-----------------------------------------------------------------------------
(* Vocabulary of the properties                                            *)

AskRoutes == {"/ask-text", "/ask-image"}

\* Request r reached its handler.
Handled(r) == route[r] \in AskRoutes /\ payload[r] # << >>

Responded(r) == response[r] # << >>

\* The provider call of r raised.
ProviderFailed(r) == outcome[r] # << >> /\ outcome[r][1].kind = "raise"

\* The read of the upload of r raised.
ReadFailed(r) == route[r] = "/ask-image" /\ exc[r] # << >> /\ outcome[r] = << >>

AllWhitespace(s) == \A i \in 1..Len(s) : s[i] \in Whitespace

\* t is s without its leading and trailing whitespace.
IsTrimOf(t, s) ==
    /\ \E i \in 0..Len(s) : \E j \in i..Len(s) :
          /\ t = SubSeq(s, i + 1, j)
          /\ AllWhitespace(SubSeq(s, 1, i))
          /\ AllWhitespace(SubSeq(s, j + 1, Len(s)))
    /\ t # << >> => t[1] \notin Whitespace /\ t[Len(t)] \notin Whitespace

\* The chunks of prompt p between the "Question:" header and the
\* answer-format block.
QuestionSection(p) ==
    LET i == CHOOSE k \in 1..Len(p) : p[k] = QuestionHeader
        j == CHOOSE k \in 1..Len(p) : p[k] = AnswerFormat
    IN  SubSeq(p, i + 1, j - 1)

\* The system prompt the options of request r call for.
OwnSystemPrompt(r) ==
    build_system_prompt(payload[r][1].level, payload[r][1].style,
                        payload[r][1].language)

-----------------------------------------------------------------------------
(* C1                                                                      *)

\* C1: a failure of the provider call, or of the read of the upload, ends in
\* a 200 response whose answer_text is the route's fallback sentence; the
\* response does not carry the error, no response is a 5xx, and the failure
\* is on stdout before the handler returns.
FailureMasked ==
    \A r \in Requests :
        /\ Responded(r) => response[r][1].status < 500
        /\ (ProviderFailed(r) \/ ReadFailed(r)) /\ Responded(r) =>
              /\ response[r][1].status = 200
              /\ response[r][1].body =
                    [answer_text |->
                        IF route[r] = "/ask-text"
                        THEN << "Sorry, backend me kuch error aa gaya. Please try again." >>
                        ELSE << "Sorry, image se question read karte waqt error aa gaya." >>]
              /\ \A i \in 1..Len(response[r][1].body.answer_text) :
                    response[r][1].body.answer_text[i] # exc[r][1]
        /\ (ProviderFailed(r) \/ ReadFailed(r)) /\ pc[r] \in {"return", "done"} =>
              /\ exc[r] # << >>
              /\ \E i \in 1..Len(stdout) :
                    /\ stdout[i].err = exc[r][1]
                    /\ stdout[i].msg = "Gemini error in " \o route[r] \o ":"

\* A provider failure on /ask-text that has been answered.
FailureMaskedWitness ==
    \E r \in Requests :
        route[r] = "/ask-text" /\ ProviderFailed(r) /\ Responded(r)

-----------------------------------------------------------------------------
(* C2                                                                      *)

\* Invalid at the boundary, in the words of the claim.
InvalidAtBoundary(q) ==
    \/ q.path = "/ask-text" /\ q.question = << >>
    \/ /\ q.path \in AskRoutes
       /\ \/ q.level \notin {"basic", "advanced", Absent}
          \/ q.style \notin {"detailed", "short", Absent}
          \/ q.language \notin {"english", "hinglish", Absent}

RejectedUntouched ==
    \A r \in Requests :
        /\ Responded(r) /\ response[r][1].status \in 400..499 =>
              /\ system_prompt[r] = << >>
              /\ contents[r] = << >>
              /\ sent[r] = << >>
              /\ pc[r] = "done"
        /\ payload[r] # << >> =>
              /\ payload[r][1].level \in {"basic", "advanced"}
              /\ payload[r][1].style \in {"detailed", "short"}
              /\ payload[r][1].language \in {"english", "hinglish"}

RejectedAtBoundary ==
    \A r \in Requests :
        pc[r] = "received" /\ InvalidAtBoundary(raw[r][1]) /\ pc'[r] # "received" =>
            /\ response'[r] # << >>
            /\ response'[r][1].status \in 400..499
            /\ pc'[r] = "done"

\* C2: a request invalid at the boundary is answered with a 4xx, no prompt
\* is built for it and the provider is not called; every option value that
\* reaches a handler is an enumerated one.
BoundaryValidation == []RejectedUntouched /\ [][RejectedAtBoundary]_vars

\* An /ask-image request with an option outside its enumeration, rejected.
BoundaryValidationWitness ==
    \E r \in Requests :
        route[r] = "/ask-image" /\ Responded(r) /\ response[r][1].status = 422

-----------------------------------------------------------------------------
(* C3                                                                      *)

\* C3 as stated: every handled request has made exactly one provider call
\* by the time it is answered, and /health makes none.
ExactlyOneCall ==
    \A r \in Requests :
        /\ Len(sent[r]) <= 1
        /\ route[r] = "/health" => Len(sent[r]) = 0
        /\ Handled(r) /\ Responded(r) => Len(sent[r]) = 1

\* C3, amended: never a second call; /ask-text has made exactly one when it
\* answers; /ask-image has made exactly one when it answers, unless the read
\* of the upload failed, and then none; /health makes none.
AtMostOneCall ==
    \A r \in Requests :
        /\ Len(sent[r]) <= 1
        /\ route[r] = "/health" => Len(sent[r]) = 0
        /\ Handled(r) /\ Responded(r) /\ route[r] = "/ask-text" => Len(sent[r]) = 1
        /\ Handled(r) /\ Responded(r) /\ route[r] = "/ask-image" =>
              Len(sent[r]) = (IF ReadFailed(r) THEN 0 ELSE 1)

\* A request answered after its one call failed.
AtMostOneCallWitness ==
    \E r \in Requests : ProviderFailed(r) /\ Responded(r) /\ Len(sent[r]) = 1

-----------------------------------------------------------------------------
(* C4, C10: build_system_prompt called directly                            *)

Enumerated(a) ==
    a.level \in Level /\ a.style \in Style /\ a.language \in Language

\* The positions at which two sequences of equal length differ.
DiffPositions(p, q) == {i \in 1..Len(p) : p[i] # q[i]}

\* The chunks of the level, style and language clauses, in that order.
ClausePosition == [level |-> 3, style |-> 6, language |-> 9]

\* The clause positions of the options on which a and b differ.
ExpectedDiff(a, b) ==
    {ClausePosition[o] : o \in {o \in {"level", "style", "language"} : a[o] # b[o]}}

\* C4: over the 8 enumerated combinations the prompts of two calls are
\* equal when the arguments are, distinct when they are not, and differ
\* exactly in the clauses of the options on which the arguments differ; the
\* clauses come in the order level, style, language.
PromptsDifferInClauses ==
    unit.sp_a # << >> /\ unit.sp_b # << >> /\ Enumerated(unit.a) /\ Enumerated(unit.b) =>
        LET pa == unit.sp_a[1]
            pb == unit.sp_b[1]
        IN  /\ Len(pa) = Len(pb)
            /\ DiffPositions(pa, pb) = ExpectedDiff(unit.a, unit.b)
            /\ (unit.a = unit.b) <=> (pa = pb)
            /\ pa[ClausePosition.level] \in {LevelBasic, LevelAdvanced}
            /\ pa[ClausePosition.style] \in {StyleDetailed, StyleShort}
            /\ pa[ClausePosition.language] \in {LangEnglish, LangHinglish}

\* Two calls whose arguments differ in every option.
PromptsDifferInClausesWitness ==
    /\ unit.sp_a # << >> /\ unit.sp_b # << >>
    /\ Enumerated(unit.a) /\ Enumerated(unit.b)
    /\ unit.a.level # unit.b.level
    /\ unit.a.style # unit.b.style
    /\ unit.a.language # unit.b.language

EnumeratedPrompts ==
    {build_system_prompt(l, s, g) : l \in Level, s \in Style, g \in Language}

\* Each unrecognized value replaced by the default of its field.
WithDefaults(a) ==
    [level    |-> IF a.level \in Level THEN a.level ELSE "basic",
     style    |-> IF a.style \in Style THEN a.style ELSE "detailed",
     language |-> IF a.language \in Language THEN a.language ELSE "hinglish"]

\* Each unrecognized value replaced by the value of the else branch.
WithElseBranch(a) ==
    [level    |-> IF a.level \in Level THEN a.level ELSE "basic",
     style    |-> IF a.style \in Style THEN a.style ELSE "short",
     language |-> IF a.language \in Language THEN a.language ELSE "english"]

\* C10 as stated: the prompt of any arguments is an enumerated prompt and is
\* the prompt of the arguments with each unrecognized value replaced by its
\* default.
UnrecognizedFallsToDefault ==
    /\ unit.sp_a # << >> => unit.sp_a[1] \in EnumeratedPrompts
    /\ unit.sp_a # << >> /\ unit.sp_b # << >> /\ unit.b = WithDefaults(unit.a) =>
          unit.sp_a = unit.sp_b

\* C10, amended: the prompt of any arguments is an enumerated prompt and is
\* the prompt of the arguments with an unrecognized level replaced by basic,
\* an unrecognized style by short, an unrecognized language by english.
UnrecognizedFallsToElseBranch ==
    /\ unit.sp_a # << >> => unit.sp_a[1] \in EnumeratedPrompts
    /\ unit.sp_a # << >> /\ unit.sp_b # << >> /\ unit.b = WithElseBranch(unit.a) =>
          unit.sp_a = unit.sp_b

\* A call with no recognized argument, and the call with the replaced ones.
UnrecognizedFallsToElseBranchWitness ==
    /\ unit.sp_a # << >> /\ unit.sp_b # << >>
    /\ unit.a.level \notin Level
    /\ unit.a.style \notin Style
    /\ unit.a.language \notin Language
    /\ unit.b = WithElseBranch(unit.a)

-----------------------------------------------------------------------------
(* C5                                                                      *)

\* C5 as stated: make_markdown_prompt, given a question with leading or
\* trailing whitespace, returns a prompt whose Question section is the
\* trimmed question.
BuilderTrims ==
    unit.full # << >> /\ (\E i \in 1..Len(unit.question) : unit.question[i] \notin Whitespace) =>
        IsTrimOf(QuestionSection(unit.full[1]), unit.question)

\* C5, amended: make_markdown_prompt places its question argument verbatim
\* between the system prompt and the answer-format block; ask_text trims
\* the question before the call, so the prompt it builds and sends is the
\* system prompt, the Question section with the trimmed question, and the
\* answer-format block.
HandlerTrims ==
    /\ unit.full # << >> =>
          LET direct == unit.full[1]
              n      == Len(unit.sp_a[1])
          IN  /\ SubSeq(direct, 1, n) = unit.sp_a[1]
              /\ direct[n + 1] = QuestionHeader
              /\ SubSeq(direct, n + 2, Len(direct) - 1) = unit.question
              /\ direct[Len(direct)] = AnswerFormat
    /\ \A r \in Requests :
          route[r] = "/ask-text" /\ contents[r] # << >> =>
              LET prompt == contents[r][1][1].text
                  n      == Len(OwnSystemPrompt(r))
              IN  /\ Len(contents[r][1]) = 1
                  /\ SubSeq(prompt, 1, n) = OwnSystemPrompt(r)
                  /\ prompt[n + 1] = QuestionHeader
                  /\ IsTrimOf(SubSeq(prompt, n + 2, Len(prompt) - 1),
                              payload[r][1].question)
                  /\ prompt[Len(prompt)] = AnswerFormat
                  /\ \A i \in 1..Len(sent[r]) : sent[r][i].contents = contents[r][1]

\* A question with whitespace on both sides of a letter, passed to
\* make_markdown_prompt directly and sent by ask_text.
HandlerTrimsWitness ==
    /\ unit.full # << >>
    /\ Len(unit.question) = 3
    /\ unit.question[1] \in Whitespace
    /\ unit.question[2] \notin Whitespace
    /\ unit.question[3] \in Whitespace
    /\ \E r \in Requests :
          /\ route[r] = "/ask-text" /\ sent[r] # << >>
          /\ payload[r][1].question = unit.question

-----------------------------------------------------------------------------
(* C6                                                                      *)

IsStr(x) == \A i \in 1..Len(x) : x[i] \in STRING

-----------------------------------------------------------------------------
(* C7                                                                      *)

\* The two parts ask_image is to pass for request r.
OwnImageParts(r) ==
    LET f == payload[r][1].file
    IN  << [text |-> OwnSystemPrompt(r) \o
                     << "\nRewrite the question clearly from the image. Then solve step-by-step.\n" >>],
           [mime_type |-> IF f.content_type \in {<< >>, <<"">>}
                          THEN "image/jpeg"
                          ELSE f.content_type[1],
            data |-> f.data] >>

\* C7 as stated: for every /ask-image request the provider is called with
\* the system prompt of the request's options followed by the instruction,
\* and the uploaded bytes tagged with the declared type or image/jpeg.
EveryImageRequestCalls ==
    \A r \in Requests :
        route[r] = "/ask-image" /\ Handled(r) /\ Responded(r) =>
            /\ Len(sent[r]) = 1
            /\ sent[r][1].contents = OwnImageParts(r)

\* C7, amended: every provider call of an /ask-image request carries these
\* two parts, and the call is made for every request whose upload was read;
\* when the read fails no call is made.
ImageCallParts ==
    \A r \in Requests :
        route[r] = "/ask-image" /\ Handled(r) =>
            /\ \A i \in 1..Len(sent[r]) :
                  /\ Len(sent[r][i].contents) = 2
                  /\ sent[r][i].contents = OwnImageParts(r)
            /\ Responded(r) /\ ~ReadFailed(r) => Len(sent[r]) = 1
            /\ ReadFailed(r) => sent[r] = << >>

\* Calls made with a declared type, and with none declared.
ImageCallPartsWitness ==
    \E r \in Requests :
        /\ route[r] = "/ask-image" /\ sent[r] # << >>
        /\ payload[r][1].file.content_type = <<"text/plain">>
        /\ payload[r][1].file.data # << >>
        /\ Responded(r)

-----------------------------------------------------------------------------
(* C8                                                                      *)

\* The argument of the provider call the inputs of request r call for.
OwnContents(r) ==
    IF route[r] = "/ask-text"
    THEN << [text |-> OwnSystemPrompt(r) \o <<QuestionHeader>>
                      \o strip(payload[r][1].question) \o <<AnswerFormat>>] >>
    ELSE OwnImageParts(r)

\* What r was given and what happened to it: its route, its parameters, the
\* end of its provider call and the exception it caught.
Own(r) == << route[r], payload[r], outcome[r], exc[r] >>

\* Everything kept for request r.
Frame(r) ==
    << pc[r], route[r], raw[r], payload[r], system_prompt[r], contents[r],
       sent[r], outcome[r], exc[r], text[r], response[r] >>

OwnInputsOnly ==
    \A r \in Requests :
        /\ system_prompt[r] # << >> => system_prompt[r][1] = OwnSystemPrompt(r)
        /\ contents[r] # << >> => contents[r][1] = OwnContents(r)
        /\ \A i \in 1..Len(sent[r]) :
              sent[r][i] = [model |-> ModelName, contents |-> OwnContents(r)]
        /\ \A o \in Requests :
              Own(r) = Own(o) /\ Responded(r) /\ Responded(o) =>
                  response[r] = response[o]

OneFrameAtATime ==
    /\ model' = model
    /\ \E r \in Requests :
          /\ \A o \in Requests \ {r} : Frame(o)' = Frame(o)
          /\ \/ stdout' = stdout
             \/ /\ Len(stdout') = Len(stdout) + 1
                /\ SubSeq(stdout', 1, Len(stdout)) = stdout

\* C8: under any interleaving the prompt sent and the response returned for
\* a request are determined by its own inputs and the end of its own call;
\* a step of one request leaves what is kept for the others unchanged, and
\* no step changes the model client.
RequestsIndependent == []OwnInputsOnly /\ [][OneFrameAtATime]_vars

\* Two requests with different parameters, one answered while the call of
\* the other is pending.
RequestsIndependentWitness ==
    \E r, o \in Requests :
        /\ r # o
        /\ Handled(r) /\ Handled(o)
        /\ payload[r] # payload[o]
        /\ Responded(r)
        /\ pc[o] = "inflight"

-----------------------------------------------------------------------------
(* C9                                                                      *)

\* C9 as stated: a handled request is answered only after its provider call
\* has returned or failed.
AnsweredOnlyAfterCall ==
    \A r \in Requests : Handled(r) /\ Responded(r) => outcome[r] # << >>

AnsweredAfterCallEnds ==
    \A r \in Requests :
        /\ Handled(r) /\ Responded(r) /\ sent[r] # << >> => outcome[r] # << >>
        /\ Handled(r) /\ Responded(r) /\ sent[r] = << >> => ReadFailed(r)
        /\ pc[r] = "inflight" => sent[r] # << >> /\ outcome[r] = << >> /\ ~Responded(r)

NoTimeout ==
    \A r \in Requests :
        pc[r] = "inflight" => pc'[r] = "inflight" \/ outcome'[r] # << >>

\* C9, amended: a request that has made its provider call is answered only
\* after the call has returned or failed, and is answered once it has; a
\* pending call is left only by its return or failure, so a request whose
\* call never ends is never answered.  A request answered without a call
\* is an /ask-image request whose upload could not be read.
AnsweredOnceCallEnds ==
    /\ []AnsweredAfterCallEnds
    /\ [][NoTimeout]_vars
    /\ \A r \in Requests : (outcome[r] # << >>) ~> Responded(r)

\* A request answered after its provider call returned.
AnsweredOnceCallEndsWitness ==
    \E r \in Requests :
        /\ Handled(r) /\ Responded(r)
        /\ outcome[r] # << >> /\ outcome[r][1].kind = "return"

=============================================================================
